---------------------------- MODULE Spec2Model ----------------------------
(***************************************************************************)
(* A model of the FR24 flight finder: the normalizer (_to_view and         *)
(* _extract_duration_min), the matcher (_match_filters, _match_prefilter,  *)
(* _norm_country, _contains), the search orchestrator (FR24Service.search) *)
(* with its two external collaborators, the cache (FlightCache) and the    *)
(* request handler (search_flights).                                       *)
(*                                                                         *)
(* Python values are tagged records: None, S(chars) a str, N(n) a number,  *)
(* D(f) a dict.  A str is a sequence of characters; a character is a       *)
(* one-letter string, a Cyrillic letter is written c_<name> (lower case)   *)
(* or C_<NAME> (upper case), since the module is ASCII.                    *)
(***************************************************************************)
EXTENDS Integers, Sequences, FiniteSets, TLC

VARIABLES
    \* _match_filters applied to one flight and one filter
    mFlight, mFilters, mSkip, mDone, mResult,
    \* _to_view applied to one raw record and one detail record
    nRaw, nDetails, nDone, nView,
    \* FlightCache: the rows of flights_cache in rowid order, the UTC clock,
    \* what each request in flight has read from the clock, the value the
    \* last operation returned, and per identifier the latest save (a record
    \* of what was asked of the cache, kept beside it)
    table, clock, pending, lastRet, saved,
    \* FR24Service.search: the arguments, whether a fallback client was
    \* found, what the feed holds, the position in the code, the monotonic
    \* clock, the deadline, the flights fetched, the candidates, the number
    \* of candidates attempted, the result so far, how the search ended and
    \* what it returned
    sFilters, sLimit, sLibrary, sFeed, sPc, sNow, sDeadline, sFlights,
    sCandidates, sIndex, sResult, sOutcome, sReturned,
    \* search_flights: the request body, whether the handler has run, the
    \* HTTP status and the calls made to the service and the cache
    hPayload, hDone, hStatus, hCalls

matchVars == <<mFlight, mFilters, mSkip, mDone, mResult>>
normVars == <<nRaw, nDetails, nDone, nView>>
cacheVars == <<table, clock, pending, lastRet, saved>>
searchVars ==
    <<sFilters, sLimit, sLibrary, sFeed, sPc, sNow, sDeadline, sFlights,
      sCandidates, sIndex, sResult, sOutcome, sReturned>>
handlerVars == <<hPayload, hDone, hStatus, hCalls>>
vars == <<matchVars, normVars, cacheVars, searchVars, handlerVars>>

---------------------------------------------------------------------------
(* Python values *)

None == [t |-> "none"]
S(chars) == [t |-> "str", s |-> chars]
N(n) == [t |-> "num", n |-> n]
D(f) == [t |-> "dict", d |-> f]

\* A number of 10^10 or more does not fit the integers of the model checker:
\* it is written NK(k, r), the number k * 1000 + r with 0 <= r < 1000.
NK(k, r) == [t |-> "num", k |-> k, r |-> r]
IsBig(v) == "k" \in DOMAIN v

IsNone(v) == v.t = "none"
IsStr(v) == v.t = "str"
IsNum(v) == v.t = "num"
IsDict(v) == v.t = "dict"

\* bool(v): None, "", 0 and {} are falsy.
Truthy(v) ==
    CASE v.t = "none" -> FALSE
      [] v.t = "str" -> v.s # <<>>
      [] v.t = "num" -> IsBig(v) \/ v.n # 0
      [] v.t = "dict" -> DOMAIN v.d # {}

\* a or b
Or(a, b) == IF Truthy(a) THEN a ELSE b

---------------------------------------------------------------------------
(* str.lower(), str.strip(), the `in` operator on strings *)

UpperMap ==
    [A |-> "a", B |-> "b", C |-> "c", D |-> "d", E |-> "e", F |-> "f",
     G |-> "g", H |-> "h", I |-> "i", J |-> "j", K |-> "k", L |-> "l",
     M |-> "m", N |-> "n", O |-> "o", P |-> "p", Q |-> "q", R |-> "r",
     S |-> "s", T |-> "t", U |-> "u", V |-> "v", W |-> "w", X |-> "x",
     Y |-> "y", Z |-> "z",
     C_A |-> "c_a", C_B |-> "c_b", C_V |-> "c_v", C_G |-> "c_g",
     C_E |-> "c_e", C_I |-> "c_i", C_J |-> "c_j", C_K |-> "c_k",
     C_L |-> "c_l", C_M |-> "c_m", C_N |-> "c_n", C_O |-> "c_o",
     C_P |-> "c_p", C_R |-> "c_r", C_S |-> "c_s", C_T |-> "c_t",
     C_U |-> "c_u", C_F |-> "c_f", C_TS |-> "c_ts", C_SH |-> "c_sh",
     C_EH |-> "c_eh", C_YA |-> "c_ya"]

LowerChar(c) == IF c \in DOMAIN UpperMap THEN UpperMap[c] ELSE c

Lower(chars) == [i \in 1..Len(chars) |-> LowerChar(chars[i])]

IsSpace(c) == c = " "

RECURSIVE LStrip(_)
LStrip(chars) ==
    IF chars # <<>> /\ IsSpace(Head(chars)) THEN LStrip(Tail(chars)) ELSE chars

RECURSIVE RStrip(_)
RStrip(chars) ==
    IF chars # <<>> /\ IsSpace(chars[Len(chars)])
    THEN RStrip(SubSeq(chars, 1, Len(chars) - 1))
    ELSE chars

Strip(chars) == RStrip(LStrip(chars))

\* expected in source
InStr(expected, source) ==
    \E i \in 0..(Len(source) - Len(expected)) :
        SubSeq(source, i + 1, i + Len(expected)) = expected

---------------------------------------------------------------------------
(* FR24Service: the matcher *)

COUNTRY_ALIASES ==
    { [ru |-> <<"c_r","c_o","c_s","c_s","c_i","c_ya">>,
       en |-> <<"r","u","s","s","i","a">>],
      [ru |-> <<"c_r","c_f">>,
       en |-> <<"r","u","s","s","i","a">>],
      [ru |-> <<"c_t","c_u","c_r","c_ts","c_i","c_ya">>,
       en |-> <<"t","u","r","k","e","y">>],
      [ru |-> <<"c_g","c_e","c_r","c_m","c_a","c_n","c_i","c_ya">>,
       en |-> <<"g","e","r","m","a","n","y">>],
      [ru |-> <<"c_f","c_r","c_a","c_n","c_ts","c_i","c_ya">>,
       en |-> <<"f","r","a","n","c","e">>],
      [ru |-> <<"c_i","c_t","c_a","c_l","c_i","c_ya">>,
       en |-> <<"i","t","a","l","y">>],
      [ru |-> <<"c_i","c_s","c_p","c_a","c_n","c_i","c_ya">>,
       en |-> <<"s","p","a","i","n">>],
      [ru |-> <<"c_k","c_i","c_t","c_a","c_j">>,
       en |-> <<"c","h","i","n","a">>],
      [ru |-> <<"c_ya","c_p","c_o","c_n","c_i","c_ya">>,
       en |-> <<"j","a","p","a","n">>],
      [ru |-> <<"c_o","c_a","c_eh">>,
       en |-> <<"u","n","i","t","e","d"," ","a","r","a","b"," ",
                "e","m","i","r","a","t","e","s">>],
      [ru |-> <<"c_s","c_sh","c_a">>,
       en |-> <<"u","n","i","t","e","d"," ","s","t","a","t","e","s">>],
      [ru |-> <<"c_v","c_e","c_l","c_i","c_k","c_o","c_b","c_r","c_i",
                "c_t","c_a","c_n","c_i","c_ya">>,
       en |-> <<"u","n","i","t","e","d"," ","k","i","n","g","d","o","m">>] }

\* COUNTRY_ALIASES.get(lower, lower)
AliasGet(lower) ==
    IF \E e \in COUNTRY_ALIASES : e.ru = lower
    THEN (CHOOSE e \in COUNTRY_ALIASES : e.ru = lower).en
    ELSE lower

\* No alias lookup (the mutant of NormCountry).
NormCountryNoAlias(value) ==
    IF ~Truthy(value) THEN None
    ELSE S(Strip(Lower(value.s)))

NormCountry(value) ==
    IF ~Truthy(value) THEN None
    ELSE S(AliasGet(Strip(Lower(value.s))))

Contains(source, expected) ==
    IF ~Truthy(expected) THEN TRUE
    ELSE IF ~Truthy(source) THEN FALSE
    ELSE InStr(Lower(expected.s), Lower(source.s))

\* Only the airline string is looked at (the mutant of MatchAirline).
MatchAirlineNameOnly(flight, filters) ==
    ~(Truthy(filters.airline)
      /\ ~Contains(flight.airline, filters.airline))

\* The airline filter: a hit in the airline string, the callsign or the
\* flight number.
MatchAirline(flight, filters) ==
    ~(Truthy(filters.airline)
      /\ ~(\/ Contains(flight.airline, filters.airline)
           \/ Contains(flight.callsign, filters.airline)
           \/ Contains(flight.flight_number, filters.airline)))

MatchPrefilter(flight, filters) ==
    /\ ~(Truthy(filters.aircraft_icao)
         /\ ~Contains(flight.aircraft_icao, filters.aircraft_icao))
    /\ MatchAirline(flight, filters)

\* An absent duration passes a bound (the mutant of MatchDuration).
MatchDurationVacuous(flight, filters, skip_duration) ==
    /\ ~(/\ ~skip_duration
         /\ ~IsNone(filters.min_duration_h)
         /\ ~IsNone(flight.scheduled_duration_min)
         /\ flight.scheduled_duration_min.n < filters.min_duration_h.n * 60)
    /\ ~(/\ ~skip_duration
         /\ ~IsNone(filters.max_duration_h)
         /\ ~IsNone(flight.scheduled_duration_min)
         /\ flight.scheduled_duration_min.n > filters.max_duration_h.n * 60)

MatchDuration(flight, filters, skip_duration) ==
    /\ ~(/\ ~skip_duration
         /\ ~IsNone(filters.min_duration_h)
         /\ \/ IsNone(flight.scheduled_duration_min)
            \/ flight.scheduled_duration_min.n < filters.min_duration_h.n * 60)
    /\ ~(/\ ~skip_duration
         /\ ~IsNone(filters.max_duration_h)
         /\ \/ IsNone(flight.scheduled_duration_min)
            \/ flight.scheduled_duration_min.n > filters.max_duration_h.n * 60)

MatchDeparture(flight, filters) ==
    LET expected_dep_country == NormCountry(filters.departure_country)
        flight_dep_country == NormCountry(flight.departure_country)
    IN
    /\ ~(Truthy(expected_dep_country)
         /\ ~Contains(flight_dep_country, expected_dep_country))
    /\ \/ Contains(flight.departure_city, filters.departure_city_or_airport)
       \/ Contains(flight.departure_airport, filters.departure_city_or_airport)
       \/ Contains(flight.departure_airport_icao, filters.departure_city_or_airport)

MatchArrival(flight, filters) ==
    LET expected_arr_country == NormCountry(filters.arrival_country)
        flight_arr_country == NormCountry(flight.arrival_country)
    IN
    /\ ~(Truthy(expected_arr_country)
         /\ ~Contains(flight_arr_country, expected_arr_country))
    /\ \/ Contains(flight.arrival_airport, filters.arrival_airport)
       \/ Contains(flight.arrival_airport_icao, filters.arrival_airport)

MatchFilters(flight, filters, skip_duration) ==
    /\ MatchDuration(flight, filters, skip_duration)
    /\ MatchDeparture(flight, filters)
    /\ MatchArrival(flight, filters)
    /\ Contains(flight.aircraft_icao, filters.aircraft_icao)
    /\ MatchAirline(flight, filters)

---------------------------------------------------------------------------
(* schemas.py: FlightFilter and FlightView, and the values the matcher is
   applied to *)

MaxHours == 3
MaxCasePos == 2

NoFilter ==
    [min_duration_h |-> None, max_duration_h |-> None,
     departure_country |-> None, departure_city_or_airport |-> None,
     arrival_country |-> None, arrival_airport |-> None,
     aircraft_icao |-> None, airline |-> None, include_past |-> FALSE]

has_any_filter(f) ==
    \/ ~IsNone(f.min_duration_h)
    \/ ~IsNone(f.max_duration_h)
    \/ Truthy(f.departure_country)
    \/ Truthy(f.departure_city_or_airport)
    \/ Truthy(f.arrival_country)
    \/ Truthy(f.arrival_airport)
    \/ Truthy(f.aircraft_icao)
    \/ Truthy(f.airline)

EmptyView ==
    [fr24_id |-> S(<<"1">>), flight_number |-> None, callsign |-> None,
     airline |-> None, aircraft_icao |-> None,
     departure_airport |-> None, departure_airport_icao |-> None,
     departure_city |-> None, departure_country |-> None,
     arrival_airport |-> None, arrival_airport_icao |-> None,
     arrival_city |-> None, arrival_country |-> None,
     scheduled_duration_min |-> None, is_past |-> FALSE]

Opt(v) == {None, v}

\* Route fields: SVO / UUEE / Moscow to AYT / LTAI / Antalya.
RouteViews ==
    { [EmptyView EXCEPT !.departure_airport = da, !.departure_airport_icao = di,
                        !.departure_city = dc, !.arrival_airport = aa,
                        !.arrival_airport_icao = ai, !.arrival_city = ac] :
        da \in Opt(S(<<"S","V","O">>)), di \in Opt(S(<<"U","U","E","E">>)),
        dc \in Opt(S(<<"M","o","s","c","o","w">>)),
        aa \in Opt(S(<<"A","Y","T">>)), ai \in Opt(S(<<"L","T","A","I">>)),
        ac \in Opt(S(<<"A","n","t","a","l","y","a">>)) }

RouteFilters ==
    { [NoFilter EXCEPT !.departure_city_or_airport = d, !.arrival_airport = a] :
        d \in {None, S(<<"s","v","o">>), S(<<"u","e","e">>),
               S(<<"M","O","S","C">>), S(<<"z","z">>)},
        a \in {None, S(<<"a","y","t">>), S(<<"L","T","A">>),
               S(<<"a","n","t","a">>), S(<<"z","z">>)} }

\* Durations around every whole-hour bound, zero and absent.
DurationValues ==
    {None} \cup { N(h * 60 + e) : h \in 0..MaxHours, e \in {-1, 0, 1} }

HourValues == {None} \cup { N(h) : h \in 0..MaxHours }

DurationViews ==
    { [EmptyView EXCEPT !.scheduled_duration_min = d, !.aircraft_icao = a] :
        d \in DurationValues, a \in Opt(S(<<"B","7","3","8">>)) }

DurationFilters ==
    { [NoFilter EXCEPT !.min_duration_h = lo, !.max_duration_h = hi,
                       !.aircraft_icao = a] :
        lo \in HourValues, hi \in HourValues, a \in Opt(S(<<"b","7","3">>)) }

\* str.upper() of one character, for writing a name in another letter case.
UpperChar(c) ==
    IF \E u \in DOMAIN UpperMap : UpperMap[u] = c
    THEN CHOOSE u \in DOMAIN UpperMap : UpperMap[u] = c
    ELSE c

\* `word` with the positions in `mask` upper-cased, and the positions after
\* MaxCasePos upper-cased when `rest` is set.
Recase(word, mask, rest) ==
    [i \in 1..Len(word) |->
        IF i \in mask \/ (rest /\ i > MaxCasePos)
        THEN UpperChar(word[i]) ELSE word[i]]

CaseVariants(word) ==
    { Recase(word, mask, rest) :
        mask \in SUBSET (1..MaxCasePos), rest \in BOOLEAN }

\* str.upper()
Upper(word) == [i \in 1..Len(word) |-> UpperChar(word[i])]

Padded(chars) == {chars, <<" ">> \o chars \o <<" ">>}

\* A country filter and a country field, on the departure or the arrival side.
CountryCase(side, field, filter) ==
    IF side = "departure"
    THEN [flight |-> [EmptyView EXCEPT !.departure_country = field],
          filters |-> [NoFilter EXCEPT !.departure_country = filter],
          skip |-> FALSE]
    ELSE [flight |-> [EmptyView EXCEPT !.arrival_country = field],
          filters |-> [NoFilter EXCEPT !.arrival_country = filter],
          skip |-> FALSE]

Sides == {"departure", "arrival"}

\* Every alias in every modelled letter case, bare or padded with blanks,
\* against its English name as the table writes it, capitalised and in
\* capitals.
AliasCases ==
    UNION { { CountryCase(side, S(c), S(f)) :
                side \in Sides,
                c \in {e.en, Recase(e.en, {1}, FALSE), Upper(e.en)},
                f \in UNION { Padded(w) : w \in CaseVariants(e.ru) } } :
            e \in COUNTRY_ALIASES }

\* The alias cases; every alias against every English name of the table, and
\* against a country field that is itself written in Russian, or absent;
\* and values that are not in the table.
CountryCases ==
    AliasCases
    \cup
    { CountryCase(side, c, S(e.ru)) :
        side \in Sides, e \in COUNTRY_ALIASES,
        c \in { S(x.en) : x \in COUNTRY_ALIASES }
              \cup {None, S(<<"C_R","c_o","c_s","c_s","c_i","c_ya">>)} }
    \cup
    { CountryCase(side, c, S(f)) :
        side \in Sides,
        c \in {None, S(<<"R","u","s","s","i","a">>),
               S(<<"R","u","s","s","i","a","n"," ","F","e","d">>),
               S(<<" ","s","p","a","i","n"," ">>)},
        f \in {<<"r","u","s">>, <<"R","U","S","S","I","A">>, <<" ">>,
               <<" ","S","p","a","i","n"," ">>,
               <<"c_r","c_o","c_s">>, <<"z","z">>} }

\* Airline string, callsign and flight number, each absent or set, against
\* airline filters found in one of them, in several or in none.
AirlineCases ==
    { [flight |-> [EmptyView EXCEPT !.airline = al, !.callsign = cs,
                                    !.flight_number = fn, !.aircraft_icao = ac],
       filters |-> [NoFilter EXCEPT !.airline = f, !.aircraft_icao = af],
       skip |-> FALSE] :
        al \in {None, S(<<"A","e","r","o","f","l","o","t">>),
                S(<<"A","e","r","o","f","l","o","t"," ","A","F","L"," ","S","U">>)},
        cs \in {None, S(<<"A","F","L","1","2","0","0">>), S(<<"T","H","Y","7">>)},
        fn \in {None, S(<<"S","U","1","2","0","0">>), S(<<"T","K","7">>)},
        ac \in Opt(S(<<"B","7","3","8">>)),
        f \in {None, S(<<>>), S(<<"A","F","L">>), S(<<"a","f","l">>),
               S(<<"s","u","1","2">>), S(<<"a","e","r","o">>),
               S(<<"1","2","0","0">>), S(<<"t","h","y">>), S(<<"z","z">>)},
        af \in {None, S(<<"b","7","3">>), S(<<"a","3","2">>)} }

MatchCases ==
    { [flight |-> v, filters |-> f, skip |-> FALSE] :
        v \in RouteViews, f \in RouteFilters }
    \cup AirlineCases
    \cup { [flight |-> v, filters |-> f, skip |-> k] :
             v \in DurationViews, f \in DurationFilters, k \in BOOLEAN }
    \cup CountryCases

---------------------------------------------------------------------------
(* The matcher applied to one flight and one filter *)

\* The parts of the state a specification does not use stay as they are here.
MatchIdle ==
    /\ mFlight = None /\ mFilters = None /\ mSkip = FALSE
    /\ mDone = FALSE /\ mResult = FALSE

NormIdle ==
    /\ nRaw = None /\ nDetails = None /\ nDone = FALSE
    /\ nView = None

MaxTicks == 2
\* The requests the server handles at the same time.
Requests == {"r1", "r2"}

\* The cache as FlightCache.__init__ leaves a new database.
CacheIdle ==
    /\ table = <<>>
    /\ clock = [day |-> 0, us |-> 0]
    /\ pending = [p \in Requests |-> [op |-> "idle"]]
    /\ lastRet = [op |-> "none"]
    /\ saved = <<>>

SearchIdle ==
    /\ sFilters = None /\ sLimit = 0 /\ sLibrary = FALSE /\ sFeed = <<>>
    /\ sPc = "idle"
    /\ sNow = 0 /\ sDeadline = 0 /\ sFlights = <<>> /\ sCandidates = <<>>
    /\ sIndex = 0 /\ sResult = <<>> /\ sOutcome = "idle" /\ sReturned = <<>>

HandlerIdle ==
    /\ hPayload = None /\ hDone = FALSE /\ hStatus = 0 /\ hCalls = <<>>

MatchInit ==
    /\ \E c \in MatchCases :
          mFlight = c.flight /\ mFilters = c.filters /\ mSkip = c.skip
    /\ mDone = FALSE
    /\ mResult = FALSE
    /\ NormIdle /\ CacheIdle /\ SearchIdle /\ HandlerIdle

ApplyMatchFilters ==
    /\ ~mDone
    /\ mDone' = TRUE
    /\ mResult' = MatchFilters(mFlight, mFilters, mSkip)
    /\ UNCHANGED <<mFlight, mFilters, mSkip, normVars, cacheVars, searchVars,
                   handlerVars>>

SpecMatch == MatchInit /\ [][ApplyMatchFilters]_vars

---------------------------------------------------------------------------
(* Claims about the matcher, checked under SpecMatch *)

\* The filter text is contained, ignoring case, in one of the fields.
InAny(text, fields) ==
    \E x \in fields : Truthy(x) /\ InStr(Lower(text.s), Lower(x.s))

OnlyRouteFilters(f) ==
    /\ IsNone(f.min_duration_h) /\ IsNone(f.max_duration_h)
    /\ IsNone(f.departure_country) /\ IsNone(f.arrival_country)
    /\ IsNone(f.aircraft_icao) /\ IsNone(f.airline)

\* C7: with only the two route filters set, the matcher passes exactly when
\* the departure text (if set) is contained in the departure IATA code, ICAO
\* code or city and the arrival text (if set) is contained in the arrival
\* IATA code, ICAO code or city.
C7_RouteFilterCodeOrCity ==
    (mDone /\ OnlyRouteFilters(mFilters)) =>
        mResult =
            (/\ Truthy(mFilters.departure_city_or_airport) =>
                    InAny(mFilters.departure_city_or_airport,
                          {mFlight.departure_airport,
                           mFlight.departure_airport_icao,
                           mFlight.departure_city})
             /\ Truthy(mFilters.arrival_airport) =>
                    InAny(mFilters.arrival_airport,
                          {mFlight.arrival_airport,
                           mFlight.arrival_airport_icao,
                           mFlight.arrival_city}))

\* The duration bounds of the filter hold of a duration.
DurationWithinBounds(d, f) ==
    /\ ~IsNone(f.min_duration_h) =>
           (~IsNone(d) /\ f.min_duration_h.n * 60 <= d.n)
    /\ ~IsNone(f.max_duration_h) =>
           (~IsNone(d) /\ d.n <= f.max_duration_h.n * 60)

OnlyDurationFilters(f) ==
    /\ IsNone(f.departure_country) /\ IsNone(f.arrival_country)
    /\ IsNone(f.departure_city_or_airport) /\ IsNone(f.arrival_airport)
    /\ IsNone(f.aircraft_icao) /\ IsNone(f.airline)

\* C8: with skip_duration off a record passes only if its duration is present
\* and within every set bound (min_hours*60 <= d, d <= max_hours*60), and
\* passes exactly then when no other filter is set; with skip_duration on the
\* bounds never fail a record.
C8_DurationBounds ==
    mDone =>
        LET ok == mSkip
                  \/ DurationWithinBounds(mFlight.scheduled_duration_min, mFilters)
        IN /\ mResult => ok
           /\ OnlyDurationFilters(mFilters) => (mResult = ok)

\* An absent duration has failed a minimum bound.
C8_Witness ==
    /\ mDone /\ ~mSkip /\ ~mResult
    /\ IsNone(mFlight.scheduled_duration_min)
    /\ ~IsNone(mFilters.min_duration_h)
    /\ IsNone(mFilters.max_duration_h)
    /\ OnlyDurationFilters(mFilters)

InAliasTable(chars) == \E e \in COUNTRY_ALIASES : e.ru = chars

\* What C10 says of one country filter, one country field and the result.
CountryClaim(field, filter, result) ==
    LET f == Strip(Lower(filter.s)) IN
    /\ \A e \in COUNTRY_ALIASES :
           (f = e.ru /\ Truthy(field) /\ Lower(field.s) = e.en) => result
    /\ (/\ ~InAliasTable(f) /\ f # <<>>
        /\ Truthy(field) /\ ~InAliasTable(Strip(Lower(field.s))))
           => (result = InStr(f, Strip(Lower(field.s))))

OnlyDepartureCountry(f) ==
    /\ OnlyRouteFilters([f EXCEPT !.departure_country = None])
    /\ IsNone(f.departure_city_or_airport) /\ IsNone(f.arrival_airport)
    /\ Truthy(f.departure_country)

OnlyArrivalCountry(f) ==
    /\ OnlyRouteFilters([f EXCEPT !.arrival_country = None])
    /\ IsNone(f.departure_city_or_airport) /\ IsNone(f.arrival_airport)
    /\ Truthy(f.arrival_country)

\* C10: a country filter that is, lower-cased and trimmed, the Russian name
\* of an alias-table entry matches a country field that is the entry's
\* English name in any letter case; a filter and a field that are not in the
\* table are compared lower-cased and trimmed by substring containment.
C10_CountryAlias ==
    mDone =>
        /\ OnlyDepartureCountry(mFilters) =>
               CountryClaim(mFlight.departure_country,
                            mFilters.departure_country, mResult)
        /\ OnlyArrivalCountry(mFilters) =>
               CountryClaim(mFlight.arrival_country,
                            mFilters.arrival_country, mResult)

\* The filter "Rossiya" (capitalised, in Russian) has matched "Russia".
C10_Witness ==
    /\ mDone /\ mResult
    /\ mFilters.departure_country = S(<<"C_R","c_o","c_s","c_s","c_i","c_ya">>)
    /\ mFlight.departure_country = S(<<"R","u","s","s","i","a">>)

\* C11: a set airline filter passes a record only if the filter text is
\* contained, ignoring case, in the record's airline string, callsign or
\* flight number, and with no other filter set it passes exactly then: a hit
\* in one of the three is enough, whatever the other two hold.
C11_AirlineAnyOfThree ==
    (mDone /\ Truthy(mFilters.airline)) =>
        LET hit == InAny(mFilters.airline,
                         {mFlight.airline, mFlight.callsign,
                          mFlight.flight_number})
        IN /\ mResult => hit
           /\ OnlyRouteFilters([mFilters EXCEPT !.airline = None])
              /\ IsNone(mFilters.departure_city_or_airport)
              /\ IsNone(mFilters.arrival_airport)
                => (mResult = hit)

\* The filter "AFL" has passed a record by its callsign "AFL1200" alone: the
\* airline string does not hold it and there is no flight number.
C11_Witness ==
    /\ mDone /\ mResult
    /\ mFilters.airline = S(<<"A","F","L">>)
    /\ IsNone(mFilters.aircraft_icao)
    /\ mFlight.callsign = S(<<"A","F","L","1","2","0","0">>)
    /\ mFlight.airline = S(<<"A","e","r","o","f","l","o","t">>)
    /\ IsNone(mFlight.flight_number)

---------------------------------------------------------------------------
(* FR24Service: the normalizer.  A raw record is a dict D(f) (the feed shape)
   or an object with attributes, [t |-> "object", d |-> f] (the library
   shape).  An operation that raises yields Raise, and Raise propagates. *)

Raise == [t |-> "raise"]
IsRaise(v) == v.t = "raise"

EmptyDict == D(<<>>)

\* obj.get(key): AttributeError when obj is no dict.
Get(obj, key) ==
    IF IsDict(obj)
    THEN (IF key \in DOMAIN obj.d THEN obj.d[key] ELSE None)
    ELSE Raise

\* a or b, where evaluating a may have raised.
OrElse(a, b) == IF IsRaise(a) THEN a ELSE Or(a, b)

OrElse3(a, b, c) == OrElse(OrElse(a, b), c)

\* The value is passed on as it is (the mutant of AsDict).
AsDictUnchecked(value) == value

AsDict(value) ==
    IF IsRaise(value) THEN Raise
    ELSE IF IsDict(value) THEN value ELSE EmptyDict

\* raw if isinstance(raw, dict) else getattr(raw, "__dict__", {})
RawData(raw) ==
    IF IsDict(raw) THEN raw
    ELSE IF raw.t = "object" THEN D(raw.d)
    ELSE EmptyDict

\* 10_000_000_000 / 1000
MsThresholdK == 10000000

normalize_ts(value) ==
    LET v == IF IsDict(value)
             THEN Or(Get(value, "timestamp"), Get(value, "time"))
             ELSE value
    IN IF ~IsNum(v) THEN None
       ELSE IF IsBig(v) /\ (v.k > MsThresholdK
                            \/ (v.k = MsThresholdK /\ v.r > 0))
       THEN N(v.k)
       ELSE v

\* delta if delta > 0 else None
PositiveOrNone(delta) == IF delta > 0 THEN N(delta) ELSE None

\* int(value // 60) if value > 1000 else int(value)
SecondsOrMinutes(n) == IF n > 1000 THEN n \div 60 ELSE n

\* x if isinstance(x, dict) else {}
DictOr(x) == IF IsDict(x) THEN x ELSE EmptyDict

RECURSIVE FirstOther(_, _)
FirstOther(other, keys) ==
    IF keys = <<>> THEN None
    ELSE LET value == Get(other, Head(keys))
         IN IF IsNum(value) /\ value.n > 0
            THEN N(SecondsOrMinutes(value.n))
            ELSE FirstOther(other, Tail(keys))

ExtractDurationMin(data, details0) ==
    LET details == Or(details0, EmptyDict)
        time_obj == DictOr(Get(details, "time"))
        scheduled == DictOr(Get(time_obj, "scheduled"))
        departure_ts == Or(Or(Get(scheduled, "departure"),
                              Get(data, "time_scheduled")),
                           Get(data, "scheduled_departure"))
        arrival_ts == Or(Or(Get(scheduled, "arrival"),
                            Get(data, "time_estimated")),
                         Get(data, "scheduled_arrival"))
        departure_ts_norm == normalize_ts(departure_ts)
        arrival_ts_norm == normalize_ts(arrival_ts)
        real == DictOr(Get(time_obj, "real"))
        dep_real == normalize_ts(Get(real, "departure"))
        arr_real == normalize_ts(Get(real, "arrival"))
        duration == Get(data, "duration")
        other == DictOr(Get(time_obj, "other"))
    IN IF ~IsNone(departure_ts_norm) /\ ~IsNone(arrival_ts_norm)
       THEN PositiveOrNone((arrival_ts_norm.n - departure_ts_norm.n) \div 60)
       ELSE IF ~IsNone(dep_real) /\ ~IsNone(arr_real)
       THEN PositiveOrNone((arr_real.n - dep_real.n) \div 60)
       ELSE IF IsNum(duration)
       THEN N(SecondsOrMinutes(duration.n))
       ELSE FirstOther(other, <<"eta", "duration", "delay">>)

\* The decimal digits of a natural number.
RECURSIVE Digits(_)
Digits(n) ==
    LET d == <<"0","1","2","3","4","5","6","7","8","9">>[(n % 10) + 1]
    IN IF n < 10 THEN <<d>> ELSE Digits(n \div 10) \o <<d>>

\* str(value), of a str or an int
StrOf(value) ==
    IF IsStr(value) THEN value.s
    ELSE IF value.n < 0 THEN <<"-">> \o Digits(-value.n)
    ELSE Digits(value.n)

\* str(value).strip() or None
SafeStr(value) ==
    IF IsRaise(value) THEN Raise
    ELSE IF IsNone(value) THEN None
    ELSE LET text == Strip(StrOf(value))
         IN IF text = <<>> THEN None ELSE S(text)

\* " ".join([item for item in items if item]) or None
RECURSIVE JoinTruthy(_)
JoinTruthy(items) ==
    IF items = <<>> THEN <<>>
    ELSE LET rest == JoinTruthy(Tail(items))
         IN IF ~Truthy(Head(items)) THEN rest
            ELSE IF rest = <<>> THEN Head(items).s
            ELSE Head(items).s \o <<" ">> \o rest

\* One of the values is Raise.
AnyRaise(values) == \E i \in 1..Len(values) : IsRaise(values[i])

\* One of the values is truthy and no str: " ".join raises a TypeError.
AnyNonStr(values) ==
    \E i \in 1..Len(values) :
        ~IsRaise(values[i]) /\ Truthy(values[i]) /\ ~IsStr(values[i])

ToViewChecked(raw, details0) ==
    LET data == RawData(raw)
        details == Or(details0, EmptyDict)
        airport == AsDict(Get(details, "airport"))
        dep_detail == AsDict(Get(airport, "origin"))
        arr_detail == AsDict(Get(airport, "destination"))
        dep_pos == AsDict(Get(dep_detail, "position"))
        arr_pos == AsDict(Get(arr_detail, "position"))
        dep_region == AsDict(Get(dep_pos, "region"))
        arr_region == AsDict(Get(arr_pos, "region"))
        dep_country_obj == AsDict(Get(dep_pos, "country"))
        arr_country_obj == AsDict(Get(arr_pos, "country"))
        dep_code == AsDict(Get(dep_detail, "code"))
        arr_code == AsDict(Get(arr_detail, "code"))
        dep_iata == OrElse3(Get(data, "origin_airport_iata"),
                            Get(data, "airport_origin_code_iata"),
                            Get(dep_code, "iata"))
        arr_iata == OrElse3(Get(data, "destination_airport_iata"),
                            Get(data, "airport_destination_code_iata"),
                            Get(arr_code, "iata"))
        dep_icao == OrElse3(Get(data, "origin_airport_icao"),
                            Get(data, "airport_origin_code_icao"),
                            Get(dep_code, "icao"))
        arr_icao == OrElse3(Get(data, "destination_airport_icao"),
                            Get(data, "airport_destination_code_icao"),
                            Get(arr_code, "icao"))
        departure_city == OrElse3(Get(data, "origin_city"),
                                  Get(data, "airport_origin_city"),
                                  Get(dep_region, "city"))
        arrival_city == OrElse3(Get(data, "destination_city"),
                                Get(data, "airport_destination_city"),
                                Get(arr_region, "city"))
        airline == AsDict(Get(details, "airline"))
        airline_code == AsDict(Get(airline, "code"))
        airline_name == OrElse(Get(data, "airline_name"), Get(airline, "name"))
        airline_icao == OrElse(Get(data, "airline_icao"), Get(airline_code, "icao"))
        airline_iata == OrElse(Get(data, "airline_iata"), Get(airline_code, "iata"))
        airline_raised == AnyRaise(<<airline_name, airline_icao, airline_iata>>)
                          \/ AnyNonStr(<<airline_name, airline_icao, airline_iata>>)
        airline_joined == IF airline_raised THEN <<>>
                          ELSE JoinTruthy(<<airline_name, airline_icao, airline_iata>>)
        airline_field == IF airline_joined = <<>> THEN None ELSE S(airline_joined)
        dep_country == OrElse3(Get(data, "origin_country"),
                               Get(data, "airport_origin_country_name"),
                               Get(dep_country_obj, "name"))
        arr_country == OrElse3(Get(data, "destination_country"),
                               Get(data, "airport_destination_country_name"),
                               Get(arr_country_obj, "name"))
        identification == AsDict(Get(details, "identification"))
        identification_number == AsDict(Get(identification, "number"))
        aircraft == AsDict(Get(details, "aircraft"))
        aircraft_model == AsDict(Get(aircraft, "model"))
        status == AsDict(Get(details, "status"))
        duration_min == ExtractDurationMin(data, details)
        status_value == OrElse3(Get(data, "status"), Get(status, "text"),
                                S(<<>>))
        status_text == IF IsStr(status_value) THEN Lower(status_value.s) ELSE <<>>
        is_past == InStr(<<"l","a","n","d","e","d">>, status_text)
                   \/ InStr(<<"a","r","r","i","v","e","d">>, status_text)
        id_value == SafeStr(OrElse3(Get(data, "id"), Get(data, "flight_id"),
                                    S(<<>>)))
        flight_number == OrElse(OrElse3(Get(data, "number"), Get(data, "flight"),
                                        Get(data, "flight_number")),
                                Get(identification_number, "default"))
        callsign == OrElse(Get(data, "callsign"), Get(identification, "callsign"))
        aircraft_icao == OrElse3(Get(data, "aircraft_code"),
                                 Get(data, "aircraft_icao"),
                                 Get(aircraft_model, "code"))
        raised ==
            \/ AnyRaise(<<airport, dep_detail, arr_detail, dep_pos, arr_pos,
                          dep_region, arr_region, dep_country_obj,
                          arr_country_obj, dep_code, arr_code, airline,
                          airline_code, identification, identification_number,
                          aircraft, aircraft_model, status>>)
            \/ AnyRaise(<<dep_iata, arr_iata, dep_icao, arr_icao,
                          departure_city, arrival_city, dep_country,
                          arr_country, status_value, flight_number, callsign,
                          aircraft_icao>>)
            \/ airline_raised
            \/ ~IsStr(status_value)
    IN [raised |-> raised,
        view |->
          [fr24_id |-> IF IsNone(id_value)
                       THEN S(<<"u","n","k","n","o","w","n">>) ELSE id_value,
           flight_number |-> SafeStr(flight_number),
           callsign |-> SafeStr(callsign),
           airline |-> SafeStr(airline_field),
           aircraft_icao |-> SafeStr(aircraft_icao),
           departure_airport |-> SafeStr(dep_iata),
           departure_airport_icao |-> SafeStr(dep_icao),
           departure_city |-> SafeStr(departure_city),
           departure_country |-> SafeStr(dep_country),
           arrival_airport |-> SafeStr(arr_iata),
           arrival_airport_icao |-> SafeStr(arr_icao),
           arrival_city |-> SafeStr(arrival_city),
           arrival_country |-> SafeStr(arr_country),
           scheduled_duration_min |-> duration_min,
           is_past |-> is_past]]

ToView(raw, details) == ToViewChecked(raw, details).view

---------------------------------------------------------------------------
(* The raw records and detail records the normalizer is applied to *)

\* A key that the dict does not hold.
Missing == [t |-> "missing"]

\* The dict of the pairs <<key, value>> whose value is not Missing.
MkDict(pairs) ==
    LET present == { i \in 1..Len(pairs) : pairs[i][2] # Missing }
    IN D([k \in { pairs[i][1] : i \in present } |->
            pairs[CHOOSE i \in present : pairs[i][1] = k][2]])

\* A timestamp in seconds (2023-11-14) and the same instant in milliseconds.
T0 == 1700000 * 1000

\* The raw record of test_to_view_handles_none_nested_detail_objects.
RawTest ==
    D([id |-> S(<<"f","1">>), callsign |-> S(<<"A","F","L","1","2","3">>),
       airline_name |-> S(<<"A","e","r","o","f","l","o","t">>),
       aircraft_code |-> S(<<"B","7","3","8">>)])

\* A record as _get_live_flights builds it from the feed.
RawFeed ==
    D([id |-> S(<<"3","a","1","b">>), aircraft_code |-> S(<<"A","3","2","0">>),
       registration |-> S(<<"V","P","B">>), timestamp |-> N(T0),
       origin_airport_iata |-> S(<<"L","E","D">>),
       destination_airport_iata |-> S(<<>>),
       number |-> S(<<"S","U","6">>),
       callsign |-> S(<<" ","A","F","L","6"," ">>)])

\* A record with the flat detail-style keys.
RawFlat ==
    D([flight_id |-> S(<<"f","2">>), flight |-> S(<<"T","K","1">>),
       origin_city |-> S(<<"K","a","z","a","n">>),
       airport_destination_city |-> S(<<"S","o","c","h","i">>),
       origin_country |-> S(<<"R","u","s","s","i","a">>),
       airport_origin_code_icao |-> S(<<"U","W","K","D">>),
       airline_icao |-> S(<<"T","H","Y">>), airline_iata |-> S(<<"T","K">>),
       status |-> S(<<"L","a","n","d","e","d">>)])

\* A flight object of the fallback library.
RawObject ==
    [t |-> "object",
     d |-> [id |-> S(<<"9","c">>), callsign |-> S(<<"S","D","M","1">>),
            number |-> None, aircraft_code |-> S(<<"S","U","9","5">>),
            airline_icao |-> S(<<"S","D","M">>),
            origin_airport_iata |-> S(<<"S","V","O">>),
            destination_airport_iata |-> S(<<"A","E","R">>)]]

RawRecords == {RawTest, RawFeed, RawFlat, RawObject, EmptyDict}

FullOrigin ==
    D([code |-> D([iata |-> S(<<"S","V","O">>), icao |-> S(<<"U","U","E","E">>)]),
       position |-> D([region |-> D([city |-> S(<<"M","o","s","c","o","w">>)]),
                       country |-> D([name |-> S(<<"R","u","s","s","i","a">>)])])])

FullDestination ==
    D([code |-> D([iata |-> S(<<"A","Y","T">>), icao |-> S(<<"L","T","A","I">>)]),
       position |-> D([region |-> D([city |-> S(<<"A","n","t","a","l","y","a">>)]),
                       country |-> D([name |-> S(<<"T","u","r","k","e","y">>)])])])

\* An airport whose own sub-objects are null.
HollowPlace == D([code |-> None, position |-> None])
HalfPlace == D([position |-> D([region |-> None, country |-> None])])

SubObjects ==
    <<"airport", "status", "airline", "identification", "aircraft", "time">>

\* A detail record's sub-objects with every field set.
FullSubObject ==
    [airport |-> D([origin |-> FullOrigin, destination |-> FullDestination]),
     status |-> D([text |-> S(<<"L","a","n","d","e","d"," ","1","2">>)]),
     airline |->
        D([name |-> S(<<"A","e","r","o","f","l","o","t">>),
           code |-> D([icao |-> S(<<"A","F","L">>), iata |-> S(<<"S","U">>)])]),
     identification |->
        D([callsign |-> S(<<"A","F","L","9">>),
           number |-> D([default |-> S(<<"S","U","9">>)])]),
     aircraft |-> D([model |-> D([code |-> S(<<"B","7","7","W">>)])]),
     time |->
        D([scheduled |-> D([departure |-> N(T0), arrival |-> N(T0 + 7200)]),
           real |-> D([departure |-> N(T0 + 60), arrival |-> None]),
           other |-> D([eta |-> N(T0 + 7000)])])]

\* What each sub-object may be: missing, null, full, or an object whose own
\* sub-objects are null or missing.
SubObjectOptions ==
    [airport |->
        {Missing, None}
        \cup { MkDict(<< <<"origin", o>>, <<"destination", d>> >>) :
                 o \in {Missing, None, FullOrigin, HollowPlace, HalfPlace},
                 d \in {Missing, None, FullDestination, HollowPlace, HalfPlace} },
     status |-> {Missing, None, FullSubObject.status, D([text |-> None])},
     airline |->
        {Missing, None, FullSubObject.airline,
         D([name |-> S(<<"A","e","r","o","f","l","o","t">>)]),
         D([name |-> None, code |-> None])},
     identification |->
        {Missing, None, FullSubObject.identification,
         D([callsign |-> None, number |-> None])},
     aircraft |-> {Missing, None, FullSubObject.aircraft, D([model |-> None])},
     time |->
        {Missing, None, FullSubObject.time,
         D([scheduled |-> None, real |-> None, other |-> None])}]

\* The other sub-objects are all missing, all null or all present.
Bases == {"missing", "null", "full"}

BaseValue(base, key) ==
    CASE base = "missing" -> Missing
      [] base = "null" -> None
      [] base = "full" -> FullSubObject[key]

\* The detail record with sub-object `key` set to `value` and the others as
\* `base` says.
DetailsWith(key, value, base) ==
    MkDict([i \in 1..Len(SubObjects) |->
              <<SubObjects[i],
                IF SubObjects[i] = key THEN value
                ELSE BaseValue(base, SubObjects[i])>>])

\* The detail record of test_to_view_handles_none_nested_detail_objects.
DetailsTest ==
    D([airport |-> D([origin |-> None, destination |-> None]),
       status |-> None,
       airline |-> D([name |-> S(<<"A","e","r","o","f","l","o","t">>)])])

DetailRecords ==
    {None, EmptyDict, DetailsTest}
    \cup UNION { { DetailsWith(SubObjects[i], v, b) :
                     v \in SubObjectOptions[SubObjects[i]], b \in Bases } :
                 i \in 1..Len(SubObjects) }

NestingCases == { [raw |-> r, details |-> d] : r \in RawRecords, d \in DetailRecords }

\* The sources of a duration, each absent or set.
DurationCases ==
    { [raw |-> MkDict(<< <<"id", S(<<"d","1">>)>>,
                         <<"time_scheduled", ft[1]>>,
                         <<"time_estimated", ft[2]>>,
                         <<"duration", du>> >>),
       details |-> D([time |-> MkDict(<<
                        <<"scheduled", MkDict(<< <<"departure", sd>>,
                                                 <<"arrival", sa>> >>)>>,
                        <<"real", re>>, <<"other", ot>> >>)])] :
        ft \in {<<Missing, Missing>>, <<N(T0), N(T0 + 1800)>>},
        du \in {Missing, None, N(0), N(-5), N(45), N(1000), N(1001), N(7200)},
        sd \in {Missing, N(0), N(T0), NK(T0, 0), D([timestamp |-> N(T0)])},
        sa \in {Missing, N(T0 + 5400), N(T0 + 30), N(T0 - 600),
                NK(T0 + 5400, 500)},
        re \in {Missing,
                D([departure |-> N(T0), arrival |-> N(T0 + 3600)]),
                D([departure |-> N(T0 + 3600), arrival |-> N(T0)])},
        ot \in {Missing, None,
                D([eta |-> N(0), duration |-> N(50)]),
                D([eta |-> N(1200)]),
                D([delay |-> N(-3)])} }

NormCases == NestingCases \cup DurationCases

---------------------------------------------------------------------------
(* The normalizer applied to one raw record and one detail record *)

NormInit ==
    /\ \E c \in NormCases : nRaw = c.raw /\ nDetails = c.details
    /\ nDone = FALSE
    /\ nView = [raised |-> FALSE, view |-> EmptyView]
    /\ MatchIdle /\ CacheIdle /\ SearchIdle /\ HandlerIdle

ApplyToView ==
    /\ ~nDone
    /\ nDone' = TRUE
    /\ nView' = ToViewChecked(nRaw, nDetails)
    /\ UNCHANGED <<nRaw, nDetails, matchVars, cacheVars, searchVars,
                   handlerVars>>

SpecNorm == NormInit /\ [][ApplyToView]_vars

---------------------------------------------------------------------------
(* Claims about the normalizer, checked under SpecNorm *)

\* C4: the scheduled duration of the record the normalizer returns is absent
\* or a strictly positive number of minutes.
C4_DurationAbsentOrPositive ==
    nDone =>
        \/ IsNone(nView.view.scheduled_duration_min)
        \/ nView.view.scheduled_duration_min.n > 0

\* The sub-object at `key` of a detail record, None when there is none.
SubObject(obj, key) == IF IsDict(obj) THEN Get(obj, key) ELSE None

\* The first non-empty value among the flat raw fields `keys`, trimmed; None
\* when the raw record has none.
RECURSIVE FlatField(_, _)
FlatField(data, keys) ==
    IF keys = <<>> THEN None
    ELSE LET v == Get(data, Head(keys))
         IN IF IsStr(v) /\ Strip(v.s) # <<>> THEN S(Strip(v.s))
            ELSE FlatField(data, Tail(keys))

\* The flat airline fields joined by blanks; None when there is none.
FlatAirline(data) ==
    LET parts == JoinTruthy(<<Get(data, "airline_name"), Get(data, "airline_icao"),
                              Get(data, "airline_iata")>>)
    IN IF Strip(parts) = <<>> THEN None ELSE S(Strip(parts))

\* C9: with a detail sub-object null or missing the normalizer does not
\* raise, every field whose only other source is that sub-object is what the
\* flat raw fields give (absent when they give nothing), and the identifier,
\* callsign and airline of the flat raw fields are kept.
C9_NullNestedDetails ==
    nDone =>
        LET data == RawData(nRaw)
            view == nView.view
            airport == SubObject(nDetails, "airport")
            origin == SubObject(airport, "origin")
            destination == SubObject(airport, "destination")
            id == FlatField(data, <<"id", "flight_id">>)
        IN
        /\ ~nView.raised
        /\ view.fr24_id = IF IsNone(id) THEN S(<<"u","n","k","n","o","w","n">>) ELSE id
        /\ ~IsDict(origin) =>
             /\ view.departure_city =
                    FlatField(data, <<"origin_city", "airport_origin_city">>)
             /\ view.departure_country =
                    FlatField(data, <<"origin_country", "airport_origin_country_name">>)
             /\ view.departure_airport =
                    FlatField(data, <<"origin_airport_iata", "airport_origin_code_iata">>)
             /\ view.departure_airport_icao =
                    FlatField(data, <<"origin_airport_icao", "airport_origin_code_icao">>)
        /\ ~IsDict(destination) =>
             /\ view.arrival_city =
                    FlatField(data, <<"destination_city", "airport_destination_city">>)
             /\ view.arrival_country =
                    FlatField(data, <<"destination_country",
                                      "airport_destination_country_name">>)
             /\ view.arrival_airport =
                    FlatField(data, <<"destination_airport_iata",
                                      "airport_destination_code_iata">>)
             /\ view.arrival_airport_icao =
                    FlatField(data, <<"destination_airport_icao",
                                      "airport_destination_code_icao">>)
        /\ ~IsDict(SubObject(nDetails, "airline")) =>
             view.airline = FlatAirline(data)
        /\ ~IsDict(SubObject(nDetails, "identification")) =>
             /\ view.callsign = FlatField(data, <<"callsign">>)
             /\ view.flight_number =
                    FlatField(data, <<"number", "flight", "flight_number">>)
        /\ ~IsDict(SubObject(nDetails, "aircraft")) =>
             view.aircraft_icao = FlatField(data, <<"aircraft_code", "aircraft_icao">>)
        /\ ~IsDict(SubObject(nDetails, "status")) =>
             view.is_past = (/\ IsStr(Get(data, "status"))
                             /\ \/ InStr(<<"l","a","n","d","e","d">>,
                                         Lower(Get(data, "status").s))
                                \/ InStr(<<"a","r","r","i","v","e","d">>,
                                         Lower(Get(data, "status").s)))
        /\ FlatField(data, <<"callsign">>) # None =>
             view.callsign = FlatField(data, <<"callsign">>)

\* The record of the test has been normalized with origin, destination and
\* status null: no city, and the identifier and callsign of the raw record.
C9_Witness ==
    /\ nDone /\ nRaw = RawTest /\ nDetails = DetailsTest
    /\ ~nView.raised
    /\ nView.view.fr24_id = S(<<"f","1">>)
    /\ nView.view.callsign = S(<<"A","F","L","1","2","3">>)
    /\ nView.view.airline = S(<<"A","e","r","o","f","l","o","t">>)
    /\ IsNone(nView.view.departure_city)
    /\ IsNone(nView.view.arrival_city)

\* The timestamps a duration is extracted from, normalized, and the raw
\* duration field.
DurationSources(raw, details0) ==
    LET data == RawData(raw)
        details == Or(details0, EmptyDict)
        time_obj == DictOr(Get(details, "time"))
        scheduled == DictOr(Get(time_obj, "scheduled"))
        real == DictOr(Get(time_obj, "real"))
    IN [dep |-> normalize_ts(Or(Or(Get(scheduled, "departure"),
                                   Get(data, "time_scheduled")),
                                Get(data, "scheduled_departure"))),
        arr |-> normalize_ts(Or(Or(Get(scheduled, "arrival"),
                                   Get(data, "time_estimated")),
                                Get(data, "scheduled_arrival"))),
        dep_real |-> normalize_ts(Get(real, "departure")),
        arr_real |-> normalize_ts(Get(real, "arrival")),
        duration |-> Get(data, "duration"),
        other |-> DictOr(Get(time_obj, "other"))]

\* Both timestamps are present and `arr` is less than a minute after `dep`,
\* or before it.
NotPositive(dep, arr) ==
    ~IsNone(dep) /\ ~IsNone(arr) /\ (arr.n - dep.n) \div 60 <= 0

StrictlyPositive(dep, arr) ==
    ~IsNone(dep) /\ ~IsNone(arr) /\ (arr.n - dep.n) \div 60 > 0

\* C12: when the scheduled departure and arrival are both present and their
\* difference is not strictly positive, the duration is taken from the next
\* sources in order: the real timestamps when their difference is strictly
\* positive; with no pair of real timestamps, a positive raw duration field;
\* with neither, the first positive alternate field.
C12_ScheduledNotPositiveFallsThrough ==
    LET src == DurationSources(nRaw, nDetails)
        got == nView.view.scheduled_duration_min
    IN (nDone /\ NotPositive(src.dep, src.arr)) =>
        /\ StrictlyPositive(src.dep_real, src.arr_real) =>
              got = N((src.arr_real.n - src.dep_real.n) \div 60)
        /\ (/\ IsNone(src.dep_real) \/ IsNone(src.arr_real)
            /\ IsNum(src.duration) /\ src.duration.n > 0) =>
              got = N(SecondsOrMinutes(src.duration.n))
        /\ (/\ IsNone(src.dep_real) \/ IsNone(src.arr_real)
            /\ ~IsNum(src.duration)) =>
              got = FirstOther(src.other, <<"eta", "duration", "delay">>)

---------------------------------------------------------------------------
(* FlightCache.  A time is [day, us]: whole days after 2026-11-10T00:00:00
   UTC and the microsecond of the second. *)

RECURSIVE ZeroPad(_, _)
ZeroPad(chars, width) ==
    IF Len(chars) >= width THEN chars ELSE ZeroPad(<<"0">> \o chars, width)

\* datetime.isoformat() of an aware UTC datetime: the fraction is left out
\* when the microsecond is 0.
IsoFormat(t) ==
    <<"2","0","2","6","-","1","1","-">> \o ZeroPad(Digits(10 + t.day), 2)
    \o <<"T","0","0",":","0","0",":","0","0">>
    \o (IF t.us = 0 THEN <<>> ELSE <<".">> \o ZeroPad(Digits(t.us), 6))
    \o <<"+","0","0",":","0","0">>

\* now - timedelta(days=days)
MinusDays(t, days) == [day |-> t.day - days, us |-> t.us]

\* The characters of a timestamp in byte order.
ByteOrder ==
    <<"+", "-", ".", "0", "1", "2", "3", "4", "5", "6", "7", "8", "9", ":", "T">>

ByteRank(c) == CHOOSE i \in 1..Len(ByteOrder) : ByteOrder[i] = c

\* a < b as SQLite compares TEXT: byte by byte, a proper prefix first.
RECURSIVE TextLess(_, _)
TextLess(a, b) ==
    IF b = <<>> THEN FALSE
    ELSE IF a = <<>> THEN TRUE
    ELSE IF Head(a) # Head(b) THEN ByteRank(Head(a)) < ByteRank(Head(b))
    ELSE TextLess(Tail(a), Tail(b))

\* FlightView.__slots__
Slots ==
    <<"fr24_id", "flight_number", "callsign", "airline", "aircraft_icao",
      "departure_airport", "departure_airport_icao", "departure_city",
      "departure_country", "arrival_airport", "arrival_airport_icao",
      "arrival_city", "arrival_country", "scheduled_duration_min", "is_past">>

\* The JSON value of field k of a view: is_past is a bool, the others are
\* None, a str or an int.
JsonOf(f, k) ==
    IF k = "is_past" THEN [j |-> IF f[k] THEN "true" ELSE "false"]
    ELSE IF IsNone(f[k]) THEN [j |-> "null"]
    ELSE IF IsStr(f[k]) THEN [j |-> "string", s |-> f[k].s]
    ELSE [j |-> "number", n |-> f[k].n]

ValueOf(json) ==
    CASE json.j = "true" -> TRUE
      [] json.j = "false" -> FALSE
      [] json.j = "null" -> None
      [] json.j = "string" -> S(json.s)
      [] json.j = "number" -> N(json.n)

\* json.dumps({k: getattr(f, k) for k in f.__slots__}): the members in order.
JsonDumps(f) == [i \in 1..Len(Slots) |-> <<Slots[i], JsonOf(f, Slots[i])>>]

\* json.loads(text): the dict of the members (json.dumps of a dict writes
\* each key once).
JsonLoads(text) ==
    [k \in { text[i][1] : i \in 1..Len(text) } |->
        ValueOf(text[CHOOSE i \in 1..Len(text) : text[i][1] = k][2])]

\* dict.setdefault(key, None)
SetDefault(d, key) ==
    [k \in DOMAIN d \cup {key} |-> IF k \in DOMAIN d THEN d[k] ELSE None]

\* FlightView(**payload): a TypeError unless the keys are the fields.
ViewOfPayload(text) ==
    LET payload == SetDefault(SetDefault(JsonLoads(text), "departure_airport_icao"),
                              "arrival_airport_icao")
    IN IF DOMAIN payload = { Slots[i] : i \in 1..Len(Slots) }
       THEN [raised |-> FALSE, view |-> payload]
       ELSE [raised |-> TRUE, view |-> EmptyView]

\* INSERT, a second row for an identifier already there (the mutant of Upsert).
InsertOnly(rows, row) == Append(rows, row)

\* INSERT ... ON CONFLICT(fr24_id) DO UPDATE SET payload, cached_at
Upsert(rows, row) ==
    IF \A i \in 1..Len(rows) : rows[i].fr24_id # row.fr24_id
    THEN Append(rows, row)
    ELSE [i \in 1..Len(rows) |->
            IF rows[i].fr24_id = row.fr24_id
            THEN [rows[i] EXCEPT !.payload = row.payload,
                                 !.cached_at = row.cached_at]
            ELSE rows[i]]

\* executemany over the flights, in order.
RECURSIVE CacheSave(_, _, _)
CacheSave(rows, flights, now_iso) ==
    IF flights = <<>> THEN rows
    ELSE CacheSave(Upsert(rows, [fr24_id |-> Head(flights).fr24_id.s,
                                 payload |-> JsonDumps(Head(flights)),
                                 cached_at |-> now_iso]),
                   Tail(flights), now_iso)

\* SELECT payload FROM flights_cache, each payload made a FlightView.
CacheGetAll(rows) == [i \in 1..Len(rows) |-> ViewOfPayload(rows[i].payload).view]

\* The rows at or before the threshold go as well (the mutant of Expired).
ExpiredOrEqual(row, threshold_iso) == ~TextLess(threshold_iso, row.cached_at)

\* cached_at < ?
Expired(row, threshold_iso) == TextLess(row.cached_at, threshold_iso)

\* DELETE FROM flights_cache WHERE cached_at < ?
CachePrune(rows, threshold_iso) ==
    SelectSeq(rows, LAMBDA row : ~Expired(row, threshold_iso))

---------------------------------------------------------------------------
(* The cache under requests that save, prune and read while time passes *)

\* The flight of test_cache_prune, the same flight seen again with other
\* data, and a flight whose raw record had no identifier.
FlightX1 == [EmptyView EXCEPT !.fr24_id = S(<<"x","1">>), !.is_past = TRUE]

FlightX1Again ==
    [EmptyView EXCEPT !.fr24_id = S(<<"x","1">>),
                      !.callsign = S(<<"A","F","L","1">>),
                      !.scheduled_duration_min = N(95)]

CacheViews == { FlightX1, FlightX1Again, ToView(EmptyDict, None) }

\* The batches a search saves: no flight, one flight, and the same
\* identifier twice in one batch.
SaveBatches ==
    {<<>>} \cup { <<f>> : f \in CacheViews } \cup { <<FlightX1, FlightX1Again>> }

PruneDays == {0, 1}

TimeLess(a, b) == a.day < b.day \/ (a.day = b.day /\ a.us < b.us)

Idle == [op |-> "idle"]
NoReturn == [op |-> "none"]

\* The latest save of each identifier after `flights` were saved at `now`;
\* n counts the saves of the identifier, up to 2.
RECURSIVE RecordSaves(_, _, _)
RecordSaves(latest, flights, now) ==
    IF flights = <<>> THEN latest
    ELSE LET id == Head(flights).fr24_id.s
             n == IF id \in DOMAIN latest THEN 2 ELSE 1
         IN RecordSaves(
              [k \in DOMAIN latest \cup {id} |->
                  IF k = id THEN [view |-> Head(flights), at |-> now, n |-> n]
                  ELSE latest[k]],
              Tail(flights), now)

RowIds(rows) == { rows[i].fr24_id : i \in 1..Len(rows) }

CacheInit ==
    /\ CacheIdle /\ MatchIdle /\ NormIdle /\ SearchIdle /\ HandlerIdle

\* The instants at which the clock is read: midnight and half a second past
\* midnight of each day.
Ticks(t) == 2 * t.day + (IF t.us = 0 THEN 0 ELSE 1)

\* Half a second passes, or the rest of the day.
Tick ==
    /\ Ticks(clock) < MaxTicks
    /\ \/ /\ clock.us = 0
          /\ clock' = [clock EXCEPT !.us = 500000]
       \/ /\ clock.us # 0
          /\ clock' = [day |-> clock.day + 1, us |-> 0]
    /\ lastRet' = NoReturn
    /\ UNCHANGED <<table, pending, saved, matchVars, normVars,
                   searchVars, handlerVars>>

\* save: now_iso = datetime.now(timezone.utc).isoformat()
SaveBegin(p) ==
    /\ pending[p] = Idle
    /\ pending' = [pending EXCEPT ![p] =
                      [op |-> "save", now_iso |-> IsoFormat(clock), now |-> clock]]
    /\ lastRet' = NoReturn
    /\ UNCHANGED <<table, clock, saved, matchVars, normVars,
                   searchVars, handlerVars>>

\* save: the executemany and the commit
SaveCommit(p, flights) ==
    /\ pending[p].op = "save"
    /\ table' = CacheSave(table, flights, pending[p].now_iso)
    /\ saved' = RecordSaves(saved, flights, pending[p].now)
    /\ pending' = [pending EXCEPT ![p] = Idle]
    /\ lastRet' = NoReturn
    /\ UNCHANGED <<clock, matchVars, normVars,
                   searchVars, handlerVars>>

\* prune: threshold = datetime.now(timezone.utc) - timedelta(days=days)
PruneBegin(p, days) ==
    /\ pending[p] = Idle
    /\ pending' = [pending EXCEPT ![p] =
                      [op |-> "prune",
                       threshold_iso |-> IsoFormat(MinusDays(clock, days)),
                       threshold |-> MinusDays(clock, days)]]
    /\ lastRet' = NoReturn
    /\ UNCHANGED <<table, clock, saved, matchVars, normVars,
                   searchVars, handlerVars>>

\* prune: the DELETE, the commit and cursor.rowcount
PruneCommit(p) ==
    /\ pending[p].op = "prune"
    /\ table' = CachePrune(table, pending[p].threshold_iso)
    /\ saved' = [k \in DOMAIN saved \cap RowIds(table') |-> saved[k]]
    /\ pending' = [pending EXCEPT ![p] = Idle]
    /\ lastRet' = [op |-> "prune", ret |-> Len(table) - Len(table'),
                   threshold |-> pending[p].threshold]
    /\ UNCHANGED <<clock, matchVars, normVars,
                   searchVars, handlerVars>>

GetAll(p) ==
    /\ pending[p] = Idle
    /\ lastRet' = [op |-> "get_all", raised |-> \E i \in 1..Len(table) :
                                 ViewOfPayload(table[i].payload).raised,
                   value |-> CacheGetAll(table)]
    /\ UNCHANGED <<table, clock, pending, saved, matchVars, normVars,
                   searchVars, handlerVars>>

CacheNext ==
    \/ Tick
    \/ \E p \in Requests :
          \/ SaveBegin(p)
          \/ \E flights \in SaveBatches : SaveCommit(p, flights)
          \/ \E days \in PruneDays : PruneBegin(p, days)
          \/ PruneCommit(p)
          \/ GetAll(p)

SpecCache == CacheInit /\ [][CacheNext]_vars

---------------------------------------------------------------------------
(* Claims about the cache, checked under SpecCache *)

\* A prune has just committed.
PruneStep == \E p \in Requests : pending[p].op = "prune" /\ pending'[p] = Idle

\* The rows whose latest save is older than the threshold.
OlderThan(rows, latest, threshold) ==
    { i \in 1..Len(rows) : TimeLess(latest[rows[i].fr24_id].at, threshold) }

\* C5: a prune deletes exactly the rows last cached before its threshold (its
\* reading of the clock minus `days`), leaves the other rows as they were and
\* returns the number of rows it deleted; no other step removes a row.
C5_PruneExactlyExpired ==
    [][ /\ PruneStep =>
              LET old == OlderThan(table, saved, lastRet'.threshold) IN
              /\ table' = SelectSeq(table,
                            LAMBDA row : ~TimeLess(saved[row.fr24_id].at,
                                                   lastRet'.threshold))
              /\ lastRet'.op = "prune"
              /\ lastRet'.ret = Cardinality(old)
        /\ ~PruneStep => RowIds(table) \subseteq RowIds(table')
      ]_vars

\* A prune has deleted one row and kept another.
C5_Witness ==
    /\ lastRet.op = "prune" /\ lastRet.ret = 1
    /\ Len(table) = 1

\* C6: the cache holds exactly one row for each identifier saved and not
\* pruned, with the payload and the timestamp of the latest save of that
\* identifier, and get_all returns exactly the flights of those saves.
C6_OneRowPerIdLatestWins ==
    /\ \A i, j \in 1..Len(table) :
           table[i].fr24_id = table[j].fr24_id => i = j
    /\ RowIds(table) = DOMAIN saved
    /\ \A i \in 1..Len(table) :
           LET latest == saved[table[i].fr24_id] IN
           /\ ~ViewOfPayload(table[i].payload).raised
           /\ ViewOfPayload(table[i].payload).view = latest.view
           /\ table[i].cached_at = IsoFormat(latest.at)
    /\ lastRet.op = "get_all" =>
           /\ ~lastRet.raised
           /\ lastRet.value = [i \in 1..Len(table) |-> saved[table[i].fr24_id].view]

\* The identifier x1 was saved twice, the second time with other data and at
\* a later time, and has one row, which get_all has returned.
C6_Witness ==
    /\ lastRet.op = "get_all" /\ Len(lastRet.value) = 1
    /\ Len(table) = 1 /\ table[1].fr24_id = <<"x","1">>
    /\ saved[<<"x","1">>].n = 2
    /\ saved[<<"x","1">>].at = [day |-> 0, us |-> 500000]
    /\ lastRet.value[1].callsign = S(<<"A","F","L","1">>)

---------------------------------------------------------------------------
(* FR24Service.search with its two collaborators, the live feed and the
   detail lookup.  A list of flights is kept as blocks of `count` flights of
   the same content, whose identifiers are their positions in the feed. *)

MaxLimit == 2
SlowLookup == 20

\* A JSON array.
L(items) == [t |-> "list", v |-> items]

Max(a, b) == IF a >= b THEN a ELSE b
Min(a, b) == IF a <= b THEN a ELSE b

has_duration_filter(filters) ==
    ~IsNone(filters.min_duration_h) \/ ~IsNone(filters.max_duration_h)

needs_details_for_matching(filters) ==
    \/ Truthy(filters.departure_country)
    \/ Truthy(filters.departure_city_or_airport)
    \/ Truthy(filters.arrival_country)
    \/ Truthy(filters.arrival_airport)

\* The seconds the search allows itself, counted from before the fetch.
Budget(filters) ==
    IF has_duration_filter(filters) /\ ~needs_details_for_matching(filters)
    THEN 35 ELSE 25

ScanLimit(filters, limit) ==
    IF needs_details_for_matching(filters) THEN Max(limit * 12, 1200)
    ELSE IF has_duration_filter(filters) THEN Max(limit * 8, 800)
    ELSE Max(limit * 4, 220)

\* The deadline is never seen to pass (the mutant of DeadlinePassed).
DeadlineIgnored(now, deadline) == FALSE

\* monotonic() > deadline
DeadlinePassed(now, deadline) == now > deadline

\* The key of the i-th entry of the feed.
FeedKey(i) == <<"f">> \o Digits(i)

\* The array the feed holds for one flight.
FeedValue(aircraft, number, callsign) ==
    L(<<S(<<"4","2","4","0","0","1">>), N(55), N(37), N(90), N(10000), N(450),
        S(<<>>), S(<<"F","-","U","U","E","E","1">>), S(aircraft),
        S(<<"V","Q","B">>), N(T0), S(<<"S","V","O">>), S(<<"A","Y","T">>),
        S(number), N(0), N(0), S(callsign), N(0), S(<<"A","F","L">>)>>)

FeedFlightB77W ==
    FeedValue(<<"B","7","7","W">>, <<"S","U","2","1">>, <<"A","F","L","2","1">>)

\* A feed of two counters, five flights, one of them with no aircraft code,
\* and an array that is too short.
FeedSmall ==
    << [value |-> N(4), count |-> 1],
       [value |-> FeedFlightB77W, count |-> 3],
       [value |-> FeedValue(<<>>, <<"S","U","3","1">>, <<"A","F","L","3","1">>),
        count |-> 1],
       [value |-> L(<<N(1), N(2), N(3)>>), count |-> 1],
       [value |-> FeedValue(<<"A","3","2","0">>, <<"T","K","4","1">>,
                            <<"T","H","Y","4","1">>), count |-> 1],
       [value |-> N(4), count |-> 1] >>

\* The dict _get_live_flights makes of the array of one flight.
FlightOfValue(value) ==
    D([id |-> None, aircraft_code |-> value[9], registration |-> value[10],
       timestamp |-> value[11], origin_airport_iata |-> value[12],
       destination_airport_iata |-> value[13], number |-> value[14],
       callsign |-> value[17]])

\* The flights of the entries of the feed from position `first` on: an entry
\* that is no array, or an array of fewer than 17 items, is skipped.
RECURSIVE ParseFeed(_, _)
ParseFeed(payload, first) ==
    IF payload = <<>> THEN <<>>
    ELSE LET entry == Head(payload)
             rest == ParseFeed(Tail(payload), first + entry.count)
         IN IF entry.value.t = "list" /\ Len(entry.value.v) >= 17
            THEN << [raw |-> FlightOfValue(entry.value.v), first |-> first,
                     count |-> entry.count] >> \o rest
            ELSE rest

\* The flight objects of the fallback library.
LibraryFlights == << [raw |-> RawObject, first |-> 1, count |-> 2] >>

WithId(raw, key) ==
    IF IsDict(raw) THEN D([raw.d EXCEPT !.id = S(key)])
    ELSE [raw EXCEPT !.d.id = S(key)]

RECURSIVE NumFlights(_)
NumFlights(blocks) ==
    IF blocks = <<>> THEN 0 ELSE Head(blocks).count + NumFlights(Tail(blocks))

\* The j-th flight of the list.
RECURSIVE FlightAt(_, _)
FlightAt(blocks, j) ==
    IF j <= Head(blocks).count
    THEN WithId(Head(blocks).raw, FeedKey(Head(blocks).first + j - 1))
    ELSE FlightAt(Tail(blocks), j - Head(blocks).count)

\* A detail record with every sub-object, and one whose status text is a
\* number.
DetailsFull == D(FullSubObject)
DetailsIllTyped == D([status |-> D([text |-> N(5)])])

\* What the detail endpoint and the fallback library answer: an error, or a
\* JSON value.
DirectReplies ==
    { [ok |-> FALSE, json |-> None] }
    \cup { [ok |-> TRUE, json |-> j] : j \in {DetailsFull, DetailsIllTyped, L(<<>>)} }

LibraryReplies ==
    { [ok |-> FALSE, value |-> None], [ok |-> TRUE, value |-> None],
      [ok |-> TRUE, value |-> DetailsFull] }

GetFlightDetails(raw, library, direct, lib) ==
    LET flight_id ==
            IF IsDict(raw) THEN Or(Get(raw, "id"), Get(raw, "flight_id"))
            ELSE IF "id" \in DOMAIN raw.d THEN raw.d.id ELSE None
    IN IF Truthy(flight_id) /\ direct.ok
       THEN (IF IsDict(direct.json) THEN direct.json ELSE None)
       ELSE IF library /\ lib.ok THEN lib.value
       ELSE None

DetailOutcomes(raw, library) ==
    { GetFlightDetails(raw, library, direct, lib) :
        direct \in DirectReplies, lib \in LibraryReplies }

\* The candidates: the blocks whose flights pass the prefilter.
Prefiltered(flights, filters) ==
    SelectSeq(flights,
              LAMBDA b : MatchPrefilter(ToView(WithId(b.raw, FeedKey(b.first)), None),
                                        filters))

PrefilterRaised(flights) ==
    \E i \in 1..Len(flights) :
        ToViewChecked(WithId(flights[i].raw, FeedKey(flights[i].first)), None).raised

FilterAircraft == [NoFilter EXCEPT !.aircraft_icao = S(<<"b","7","7">>)]
FilterDuration == [NoFilter EXCEPT !.min_duration_h = N(1)]
FilterCountry ==
    [NoFilter EXCEPT !.departure_country =
                        S(<<"c_r","c_o","c_s","c_s","c_i","c_ya">>)]
FilterDurationRoute ==
    [NoFilter EXCEPT !.max_duration_h = N(3),
                     !.arrival_airport = S(<<"a","y","t">>)]

\* More flights than any scan limit.
FeedLarge ==
    << [value |-> FeedFlightB77W,
        count |-> ScanLimit(FilterCountry, MaxLimit) + 1] >>

\* What the feed endpoint answers: the payload, an error at once, or nothing
\* within the timeout.
FeedReplies(payload) ==
    { [ok |-> TRUE, payload |-> payload, took |-> 0] }
    \cup { [ok |-> FALSE, payload |-> <<>>, took |-> t] : t \in {0, 12} }

LibraryFeedReplies ==
    { [ok |-> TRUE, flights |-> LibraryFlights], [ok |-> FALSE, flights |-> <<>>] }

SearchFilters ==
    {FilterAircraft, FilterDuration, FilterCountry, FilterDurationRoute,
     [NoFilter EXCEPT !.airline = S(<<"a","e","r","o","f","l","o","t">>)]}

\* Every filter and every limit over the small feed, with a fallback client
\* and, for one filter, without; every filter with limit 1 over the large
\* feed.
SearchCases ==
    { [filters |-> f, limit |-> n, library |-> TRUE, feed |-> FeedSmall] :
        f \in SearchFilters, n \in 1..MaxLimit }
    \cup { [filters |-> FilterAircraft, limit |-> n, library |-> FALSE,
             feed |-> FeedSmall] : n \in 1..MaxLimit }
    \cup { [filters |-> f, limit |-> 1, library |-> TRUE, feed |-> FeedLarge] :
             f \in SearchFilters }

SearchInit ==
    /\ \E c \in SearchCases :
          /\ sFilters = c.filters /\ sLimit = c.limit
          /\ sLibrary = c.library /\ sFeed = c.feed
    /\ sPc = "start" /\ sNow = 0 /\ sDeadline = 0
    /\ sFlights = <<>> /\ sCandidates = <<>> /\ sIndex = 0 /\ sResult = <<>>
    /\ sOutcome = "running" /\ sReturned = <<>>
    /\ MatchIdle /\ NormIdle /\ CacheIdle /\ HandlerIdle

\* deadline = monotonic() + budget
Start ==
    /\ sPc = "start"
    /\ sDeadline' = sNow + Budget(sFilters)
    /\ sPc' = "fetch"
    /\ UNCHANGED <<sFilters, sLimit, sLibrary, sFeed, sNow, sFlights, sCandidates,
                   sIndex, sResult, sOutcome, sReturned,
                   matchVars, normVars, cacheVars, handlerVars>>

\* _get_live_flights
FetchFeed ==
    /\ sPc = "fetch"
    /\ \E direct \in FeedReplies(sFeed), lib \in LibraryFeedReplies :
          /\ sNow' = sNow + direct.took
          /\ IF direct.ok
             THEN /\ sFlights' = ParseFeed(direct.payload, 1)
                  /\ sPc' = "prefilter"
                  /\ sOutcome' = "running"
             ELSE IF ~sLibrary
             THEN /\ sFlights' = <<>>
                  /\ sPc' = "done"
                  /\ sOutcome' = "FR24ServiceError"
             ELSE IF lib.ok
             THEN /\ sFlights' = lib.flights
                  /\ sPc' = "prefilter"
                  /\ sOutcome' = "running"
             ELSE /\ sFlights' = <<>>
                  /\ sPc' = "done"
                  /\ sOutcome' = "fallback_raised"
    /\ UNCHANGED <<sFilters, sLimit, sLibrary, sFeed, sDeadline, sCandidates, sIndex,
                   sResult, sReturned,
                   matchVars, normVars, cacheVars, handlerVars>>

\* candidates = the flights whose feed-only view passes _match_prefilter
Prefilter ==
    /\ sPc = "prefilter"
    /\ IF PrefilterRaised(sFlights)
       THEN /\ sCandidates' = <<>>
            /\ sPc' = "done"
            /\ sOutcome' = "normalizer_raised"
       ELSE /\ sCandidates' = Prefiltered(sFlights, sFilters)
            /\ sPc' = "loop"
            /\ sOutcome' = "running"
    /\ UNCHANGED <<sFilters, sLimit, sLibrary, sFeed, sNow, sDeadline, sFlights,
                   sIndex, sResult, sReturned,
                   matchVars, normVars, cacheVars, handlerVars>>

\* The candidates the loop runs over: candidates[:scan_limit]
Scanned == Min(ScanLimit(sFilters, sLimit), NumFlights(sCandidates))

\* One pass of the loop: the deadline is read, the details are fetched, the
\* flight is normalized and matched, and the loop is left at `limit` results.
Iterate ==
    /\ sPc = "loop"
    /\ sIndex < Scanned
    /\ ~DeadlinePassed(sNow, sDeadline)
    /\ LET raw == FlightAt(sCandidates, sIndex + 1) IN
       \E details \in DetailOutcomes(raw, sLibrary), took \in {0, SlowLookup} :
       \E made \in {ToViewChecked(raw, details)} :
          LET matched == ~made.raised /\ MatchFilters(made.view, sFilters, FALSE)
              result == IF matched THEN Append(sResult, made.view) ELSE sResult
              full == matched /\ Len(result) >= sLimit
          IN /\ sNow' = sNow + took
             /\ sIndex' = sIndex + 1
             /\ sResult' = result
             /\ sPc' = IF made.raised \/ full THEN "done" ELSE "loop"
             /\ sOutcome' = IF made.raised THEN "normalizer_raised"
                            ELSE IF full THEN "returned" ELSE "running"
             /\ sReturned' = IF full THEN result ELSE <<>>
    /\ UNCHANGED <<sFilters, sLimit, sLibrary, sFeed, sDeadline, sFlights, sCandidates,
                   matchVars, normVars, cacheVars, handlerVars>>

\* The loop ends with the candidates or at the deadline: return result
Return ==
    /\ sPc = "loop"
    /\ sIndex >= Scanned \/ DeadlinePassed(sNow, sDeadline)
    /\ sPc' = "done"
    /\ sOutcome' = "returned"
    /\ sReturned' = sResult
    /\ UNCHANGED <<sFilters, sLimit, sLibrary, sFeed, sNow, sDeadline, sFlights,
                   sCandidates, sIndex, sResult,
                   matchVars, normVars, cacheVars, handlerVars>>

SearchNext == Start \/ FetchFeed \/ Prefilter \/ Iterate \/ Return

SpecSearch == SearchInit /\ [][SearchNext]_vars

---------------------------------------------------------------------------
(* Claims about the search, checked under SpecSearch *)

\* C1: a detail lookup is started only while the deadline has not passed,
\* fewer than `limit` results are accumulated and fewer than scan_limit
\* candidates have been attempted; once the deadline has passed or scan_limit
\* candidates have been attempted the next step returns the results
\* accumulated so far, and the step that accumulates the `limit`-th result
\* returns them, each time as a normal result.
C1_LookupWithinLimitsElseReturn ==
    [][ /\ sIndex' = sIndex + 1 =>
              /\ sNow <= sDeadline
              /\ Len(sResult) < sLimit
              /\ sIndex < ScanLimit(sFilters, sLimit)
        /\ (sPc = "loop" /\ (sNow > sDeadline
                             \/ sIndex >= ScanLimit(sFilters, sLimit))) =>
              /\ sOutcome' = "returned"
              /\ sReturned' = sResult
        /\ (sPc = "loop" /\ Len(sResult') >= sLimit) =>
              /\ sOutcome' = "returned"
              /\ sReturned' = sResult'
      ]_vars

\* The deadline passed with one of two results found and candidates left:
\* the one result was returned.
C1_Witness ==
    /\ sOutcome = "returned" /\ sNow > sDeadline
    /\ sLimit = 2 /\ Len(sReturned) = 1
    /\ sIndex < Scanned

\* C2: whatever the detail lookups answer, the search does not abort; it
\* aborts only when the live flight list cannot be retrieved and there is no
\* fallback client.
C2_AbortOnlyWithoutFallback ==
    \/ sOutcome \in {"idle", "running", "returned"}
    \/ sOutcome = "FR24ServiceError" /\ ~sLibrary

\* C13: the prefilter is never stricter than the full matcher: once the
\* candidates are chosen, every fetched flight that would pass the full
\* matcher when normalized with some detail record its lookup can answer is
\* among the candidates.
C13_PrefilterNeverStricter ==
    (sPc = "loop" /\ sIndex = 0) =>
        \A i \in 1..Len(sFlights) :
            LET raw == WithId(sFlights[i].raw, FeedKey(sFlights[i].first)) IN
            \A details \in DetailOutcomes(raw, sLibrary) :
            \A made \in {ToViewChecked(raw, details)} :
                (~made.raised /\ MatchFilters(made.view, sFilters, FALSE))
                    => \E j \in 1..Len(sCandidates) : sCandidates[j] = sFlights[i]

---------------------------------------------------------------------------
(* main.py: the handler of POST /api/flights/search *)

\* The request bodies that pass the validation of FlightFilterRequest.
Payloads ==
    { [min_duration_h |-> lo, max_duration_h |-> hi,
       departure_country |-> dc, departure_city_or_airport |-> None,
       arrival_country |-> None, arrival_city_or_airport |-> ac,
       arrival_airport |-> None, aircraft_icao |-> None,
       airline |-> al, include_past |-> past] :
        lo \in HourValues, hi \in HourValues,
        dc \in {None, S(<<>>), S(<<"R","u","s","s","i","a">>)},
        ac \in Opt(S(<<"A","Y","T">>)),
        al \in Opt(S(<<"A","F","L">>)),
        past \in BOOLEAN }

\* BaseModel.model_dump(): every field of the request, set or not.
ModelDump(payload) == payload

\* FlightFilter(**kwargs): a TypeError when a keyword is no field of the
\* dataclass, the default for a field that is not given.
MakeFlightFilter(kwargs) ==
    IF DOMAIN kwargs \subseteq DOMAIN NoFilter
    THEN [raised |-> FALSE,
          filters |-> [k \in DOMAIN NoFilter |->
                          IF k \in DOMAIN kwargs THEN kwargs[k] ELSE NoFilter[k]]]
    ELSE [raised |-> TRUE, filters |-> NoFilter]

ToDomain(payload) == MakeFlightFilter(ModelDump(payload))

MinExceedsMax(f) ==
    /\ ~IsNone(f.min_duration_h) /\ ~IsNone(f.max_duration_h)
    /\ f.min_duration_h.n > f.max_duration_h.n

\* The calls of the handler after its checks, when the search ends as
\* `outcome` says.
CallsAfterChecks(filters, outcome) ==
    <<"cache.prune", "service.search">>
    \o (IF outcome = "returned" THEN <<"cache.save">> ELSE <<>>)
    \o (IF outcome = "returned" /\ filters.include_past
        THEN <<"cache.get_all">> ELSE <<>>)

HandlerInit ==
    /\ hPayload \in Payloads
    /\ hDone = FALSE /\ hStatus = 0 /\ hCalls = <<>>
    /\ MatchIdle /\ NormIdle /\ CacheIdle /\ SearchIdle

\* search_flights: an exception that is no HTTPException is answered with
\* status 500.
SearchFlights ==
    /\ ~hDone
    /\ hDone' = TRUE
    /\ \E made \in {ToDomain(hPayload)} :
          IF made.raised
          THEN hStatus' = 500 /\ hCalls' = <<>>
          ELSE IF ~has_any_filter(made.filters) \/ MinExceedsMax(made.filters)
          THEN hStatus' = 400 /\ hCalls' = <<>>
          ELSE \E outcome \in {"returned", "FR24ServiceError", "raised"} :
                  /\ hStatus' = IF outcome = "returned" THEN 200 ELSE 500
                  /\ hCalls' = CallsAfterChecks(made.filters, outcome)
    /\ UNCHANGED <<hPayload, matchVars, normVars, cacheVars, searchVars>>

SpecHandler == HandlerInit /\ [][SearchFlights]_vars

---------------------------------------------------------------------------
(* Claims about the handler, checked under SpecHandler *)

\* C3: a request with no filter field set, or with a minimum duration above
\* its maximum duration, is answered with status 400, and no call to the
\* service or to the cache is made for it.
C3_BadRequestRejected ==
    (hDone /\ (~has_any_filter(hPayload) \/ MinExceedsMax(hPayload))) =>
        (hStatus = 400 /\ hCalls = <<>>)

\* to_domain raises for every request body, valid or not, so that no request
\* is answered with status 200 and the handler makes no call to the service
\* or to the cache: the response built from live_flights and cache.get_all()
\* (main.py, lines 63-71) is never produced.
NoSuccessfulResponse ==
    hDone => (hStatus = 500 /\ hCalls = <<>>)

===========================================================================
